---- MODULE Spec2Model ----
(***************************************************************************)
(* Drift detection engine of chalkandduster: the statistical library, the  *)
(* hand-rolled DriftDetector, the EvidentlyDriftDetector, the drift-YAML   *)
(* validator and the run-record lifecycle of the four callers (API route,  *)
(* Lambda handler, Airflow task, Streamlit handler).                       *)
(*                                                                         *)
(* Numbers.  Python floats are modelled exactly where the code's           *)
(* arithmetic is rational: a number is a record                            *)
(*   [k |-> "rat", n, d]        the rational n/d, d > 0                     *)
(*   [k |-> "sqrt", s, n, d]    s * sqrt(n/d), s in {-1,0,1}, n >= 0, d > 0 *)
(*   [k |-> "inf", s]           s * infinity                                *)
(*   [k |-> "none"]             Python None                                 *)
(*   [k |-> "bad"]              a YAML value that is not a number           *)
(* and comparisons cross-multiply.  PSI needs a logarithm and is computed   *)
(* in fixed point (see calculate_psi).                                      *)
(***************************************************************************)
EXTENDS Integers, Sequences, FiniteSets, TLC

\* ------------------------------------------------------------------ bounds

\* longest monitor list of a configuration
MaxMonitors == 2
\* detect() calls explored on one DriftDetector instance
MaxDetects == 2
\* run records explored in the runs table
MaxRuns == 2

\* ----------------------------------------------------------------- numbers

Rat(n, d) == [k |-> "rat", n |-> n, d |-> d]
SqrtRat(s, n, d) == [k |-> "sqrt", s |-> s, n |-> n, d |-> d]
Inf(s) == [k |-> "inf", s |-> s]
None == [k |-> "none"]
BadNumber == [k |-> "bad"]

Abs(x) == IF x < 0 THEN -x ELSE x
Sign(x) == IF x < 0 THEN -1 ELSE IF x > 0 THEN 1 ELSE 0

IsNumber(x) == x.k \in {"rat", "sqrt", "inf"}

\* abs() of a number
NumAbs(x) ==
    CASE x.k = "rat" -> Rat(Abs(x.n), x.d)
      [] x.k = "sqrt" -> SqrtRat(Abs(x.s), x.n, x.d)
      [] x.k = "inf" -> Inf(1)

\* x > t for a number x and a rational t (Python's float comparison)
NumGt(x, t) ==
    CASE x.k = "rat" -> x.n * t.d > t.n * x.d
      [] x.k = "inf" -> x.s > 0
      [] x.k = "sqrt" ->
            IF x.s * x.n <= 0
            THEN t.n < 0 /\ (x.s = 0 \/ x.n = 0 \/ x.n * t.d * t.d < t.n * t.n * x.d)
            ELSE t.n < 0 \/ x.n * t.d * t.d > t.n * t.n * x.d

\* x == t for a number x and a rational t
NumEq(x, t) ==
    CASE x.k = "rat" -> x.n * t.d = t.n * x.d
      [] x.k = "inf" -> FALSE
      [] x.k = "sqrt" ->
            IF x.s * x.n = 0 THEN t.n = 0
            ELSE Sign(t.n) = x.s /\ x.n * t.d * t.d = t.n * t.n * x.d

NumLt(x, t) == ~NumGt(x, t) /\ ~NumEq(x, t)
NumGe(x, t) == NumGt(x, t) \/ NumEq(x, t)

\* ---------------------------------------------------- statistical library

RECURSIVE SumSeq(_)
SumSeq(s) == IF s = <<>> THEN 0 ELSE Head(s) + SumSeq(Tail(s))

\* fixed point: proportions and logarithms in units of 1/FixedScale
FixedScale == 10000
\* epsilon = 0.0001, in units of 1/FixedScale
PsiEpsilon == 1
\* ln 2 in units of 1/FixedScale
Ln2Fixed == 6931
\* PSI is returned in units of 1/PsiScale
PsiScale == 1000000

RECURSIVE Log2Floor(_)
Log2Floor(x) == IF x < 2 THEN 0 ELSE 1 + Log2Floor(x \div 2)

RECURSIVE Pow2(_)
Pow2(k) == IF k = 0 THEN 1 ELSE 2 * Pow2(k - 1)

\* math.log(x / FixedScale) + ln(FixedScale), in units of 1/FixedScale, for an
\* integer x >= 1: x = m * 2^k with 1 <= m < 2, ln m = 2 atanh((m-1)/(m+1)),
\* the series cut after the z^7 term.
LnFixed(x) ==
    LET k == Log2Floor(x)
        p == Pow2(k)
        z == ((x - p) * FixedScale) \div (x + p)
        z2 == (z * z) \div FixedScale
        z3 == (z2 * z) \div FixedScale
        z5 == (z3 * z2) \div FixedScale
        z7 == (z5 * z2) \div FixedScale
    IN  k * Ln2Fixed + 2 * (z + z3 \div 3 + z5 \div 5 + z7 \div 7)

\* Python truthiness of a distribution row's value: None, "" and 0 are falsy
Falsy(v) == v \in {"", "<none>", "0"}

\* the {str(value): count} dictionary calculate_psi builds from a list of
\* {VALUE, COUNT} rows: rows with a falsy value are dropped, a later row with
\* the same value overwrites an earlier one
RECURSIVE DistToDict(_)
DistToDict(rows) ==
    IF rows = <<>> THEN <<>>
    ELSE LET n == Len(rows)
             rest == DistToDict(SubSeq(rows, 1, n - 1))
             item == rows[n]
         IN  IF Falsy(item.VALUE) THEN rest
             ELSE [v \in (DOMAIN rest) \cup {item.VALUE} |->
                      IF v = item.VALUE THEN item.COUNT ELSE rest[v]]

RECURSIVE SumDict(_, _)
SumDict(dict, keys) ==
    IF keys = {} THEN 0
    ELSE LET v == CHOOSE v \in keys : TRUE
         IN  dict[v] + SumDict(dict, keys \ {v})

DictGet(dict, v) == IF v \in DOMAIN dict THEN dict[v] ELSE 0

\* a sum whose baseline share is taken without epsilon
RECURSIVE PsiSumBare(_, _, _, _, _)
PsiSumBare(bd, cd, bt, ct, vals) ==
    IF vals = {} THEN 0
    ELSE LET v == CHOOSE v \in vals : TRUE
             baseline_pct == (DictGet(bd, v) * FixedScale) \div bt
             current_pct == (DictGet(cd, v) * FixedScale) \div ct + PsiEpsilon
         IN  (current_pct - baseline_pct) * (LnFixed(current_pct) - LnFixed(baseline_pct))
               + PsiSumBare(bd, cd, bt, ct, vals \ {v})

RECURSIVE PsiSum(_, _, _, _, _)
PsiSum(bd, cd, bt, ct, vals) ==
    IF vals = {} THEN 0
    ELSE LET v == CHOOSE v \in vals : TRUE
             baseline_pct == (DictGet(bd, v) * FixedScale) \div bt + PsiEpsilon
             current_pct == (DictGet(cd, v) * FixedScale) \div ct + PsiEpsilon
         IN  (current_pct - baseline_pct) * (LnFixed(current_pct) - LnFixed(baseline_pct))
               + PsiSum(bd, cd, bt, ct, vals \ {v})

\* a PSI without the test for empty input: an empty list counts as a
\* distribution without values
calculate_psi_unguarded(baseline, current) ==
    LET baseline_dict == DistToDict(baseline)
        current_dict == DistToDict(current)
        all_values == (DOMAIN baseline_dict) \cup (DOMAIN current_dict)
        bsum == SumDict(baseline_dict, DOMAIN baseline_dict)
        csum == SumDict(current_dict, DOMAIN current_dict)
        psi == PsiSum(baseline_dict, current_dict, IF bsum = 0 THEN 1 ELSE bsum,
                      IF csum = 0 THEN 1 ELSE csum, all_values)
        per == (FixedScale * FixedScale) \div PsiScale
    IN  Rat((Abs(psi) + per - 1) \div per, PsiScale)

\* calculate_psi(baseline, current): a rational in units of 1/PsiScale, rounded
\* up so that the result is 0 exactly when every term is 0
calculate_psi(baseline, current) ==
    IF baseline = <<>> \/ current = <<>> THEN Rat(0, 1)
    ELSE LET baseline_dict == DistToDict(baseline)
             current_dict == DistToDict(current)
             all_values == (DOMAIN baseline_dict) \cup (DOMAIN current_dict)
             bsum == SumDict(baseline_dict, DOMAIN baseline_dict)
             csum == SumDict(current_dict, DOMAIN current_dict)
             baseline_total == IF bsum = 0 THEN 1 ELSE bsum
             current_total == IF csum = 0 THEN 1 ELSE csum
             psi == PsiSum(baseline_dict, current_dict, baseline_total, current_total, all_values)
             per == (FixedScale * FixedScale) \div PsiScale
         IN  IF all_values = {} THEN Rat(0, 1)
             ELSE Rat((Abs(psi) + per - 1) \div per, PsiScale)

RECURSIVE SumSqDev(_, _, _)
\* sum over x of (n*x - total)^2
SumSqDev(values, n, total) ==
    IF values = <<>> THEN 0
    ELSE (n * Head(values) - total) * (n * Head(values) - total)
           + SumSqDev(Tail(values), n, total)

\* a z-score that is 0 whenever the historical values have no spread
calculate_zscore_flat(current_value, historical_values) ==
    LET n == Len(historical_values)
        total == SumSeq(historical_values)
        dev == n * current_value - total
        ss == SumSqDev(historical_values, n, total)
    IN  IF n < 2 \/ ss = 0 THEN Rat(0, 1)
        ELSE SqrtRat(Sign(dev), dev * dev * (n - 1), ss)

\* calculate_zscore(current_value, historical_values)
calculate_zscore(current_value, historical_values) ==
    IF historical_values = <<>> THEN Rat(0, 1)
    ELSE LET n == Len(historical_values)
             total == SumSeq(historical_values)
             dev == n * current_value - total
             ss == SumSqDev(historical_values, n, total)
         IN  IF n < 2
             THEN IF total = 0
                  THEN IF current_value = 0 THEN Rat(0, 1) ELSE Inf(1)
                  ELSE Rat(Abs(current_value - total) * 3, total)
             ELSE IF ss = 0
                  THEN IF dev = 0 THEN Rat(0, 1) ELSE Inf(1)
                  ELSE SqrtRat(Sign(dev), dev * dev * (n - 1), ss)

\* schema_to_dict: {column_name: data_type}; rows with a falsy name are dropped
RECURSIVE schema_to_dict(_)
schema_to_dict(schema_list) ==
    IF schema_list = <<>> THEN <<>>
    ELSE LET n == Len(schema_list)
             rest == schema_to_dict(SubSeq(schema_list, 1, n - 1))
             col == schema_list[n]
         IN  IF Falsy(col.COLUMN_NAME) THEN rest
             ELSE [c \in (DOMAIN rest) \cup {col.COLUMN_NAME} |->
                      IF c = col.COLUMN_NAME THEN col.DATA_TYPE ELSE rest[c]]

\* a diff that lists a column of another type as removed
schema_diff_retyped_removed(baseline_schema, current_schema) ==
    LET baseline_dict == schema_to_dict(baseline_schema)
        current_dict == schema_to_dict(current_schema)
        same == {c \in (DOMAIN baseline_dict) \cap (DOMAIN current_dict) :
                    baseline_dict[c] = current_dict[c]}
    IN  [added |-> (DOMAIN current_dict) \ (DOMAIN baseline_dict),
         removed |-> (DOMAIN baseline_dict) \ same,
         modified |-> {}]

\* calculate_schema_diff(baseline_schema, current_schema); the lists are built
\* from sets, so their order is not defined and they are modelled as sets
calculate_schema_diff(baseline_schema, current_schema) ==
    LET baseline_dict == schema_to_dict(baseline_schema)
        current_dict == schema_to_dict(current_schema)
        baseline_cols == DOMAIN baseline_dict
        current_cols == DOMAIN current_dict
    IN  [added |-> current_cols \ baseline_cols,
         removed |-> baseline_cols \ current_cols,
         modified |-> {<<c, baseline_dict[c], current_dict[c]>> :
                          c \in {x \in baseline_cols \cap current_cols :
                                    baseline_dict[x] # current_dict[x]}}]

\* ------------------------------------------------------ configuration data

\* a key that is missing from a YAML mapping (dict.get returns its default)
Absent == "<absent>"
ThresholdAbsent == [k |-> "absent"]

\* a monitor declaration of the drift YAML; isdict = FALSE is a list entry that
\* is a scalar instead of a mapping
Monitor(type, name, column, threshold) ==
    [isdict |-> TRUE, type |-> type, name |-> name, column |-> column,
     threshold |-> threshold, stattest |-> Absent]
ScalarMonitor ==
    [isdict |-> FALSE, type |-> Absent, name |-> Absent, column |-> Absent,
     threshold |-> ThresholdAbsent, stattest |-> Absent]
\* the same declaration with a stattest key
WithStattest(monitor, stattest) == [monitor EXCEPT !.stattest = stattest]

\* the result classes of drift/detector.py and drift/models.py
DriftResult(monitor_name, drift_type, detected, severity, metric_value, threshold, details, message) ==
    [monitor_name |-> monitor_name, drift_type |-> drift_type, detected |-> detected,
     severity |-> severity, metric_value |-> metric_value, threshold |-> threshold,
     details |-> details, message |-> message]

\* the defaults of DriftResult's optional arguments
DefaultSeverity == "warning"
NoDetails == [empty |-> TRUE]

RECURSIVE CountDetected(_)
CountDetected(results) ==
    IF results = <<>> THEN 0
    ELSE (IF Head(results).detected THEN 1 ELSE 0) + CountDetected(Tail(results))

\* a count that takes every result above severity info for a drift
count_above_info(results) ==
    Cardinality({i \in 1..Len(results) : results[i].severity # "info"})

\* DriftRunResult.total_monitors and DriftRunResult.drift_detected_count
total_monitors(results) == Len(results)
drift_detected_count(results) == CountDetected(results)

\* ------------------------------------------------------------ DriftDetector

\* getattr(self, '_volume_baseline', None) when the attribute was never set
NoCount == -1
\* getattr(self, '_schema_baseline', None) / '_dist_baseline_<column>' when the
\* attribute was never set; a stored baseline is never empty
NoBaseline == <<>>

\* column names a distribution monitor can name (truthy strings)
Columns == {"STATUS"}

\* DriftDetector.__init__: settings has no SNOWFLAKE_MOCK_MODE field, so reading
\* it (mock_mode = None) raises AttributeError
SettingsHasMockMode == FALSE
MockModeArgs == {"None", "True", "False"}
DetectorInitRaises(mock_mode) == mock_mode = "None" /\ ~SettingsHasMockMode

NewDetectorState(baseline_days, mock_mode) ==
    [baseline_days |-> baseline_days,
     mock_mode |-> (mock_mode = "True"),
     schema_baseline |-> NoBaseline,
     volume_baseline |-> NoCount,
     volume_history |-> <<>>,
     dist_baseline |-> [c \in Columns |-> NoBaseline]]

\* DriftDetector._default_threshold
default_threshold(drift_type) ==
    CASE drift_type = "schema" -> Rat(0, 1)
      [] drift_type = "volume" -> Rat(3, 1)
      [] drift_type = "distribution" -> Rat(1, 4)
      [] OTHER -> Rat(1, 4)

\* str(e) of the exceptions a monitor evaluation can meet: the connector call
\* raising, and a comparison of a float with a threshold that is no number
ConnectorError == "connector error"
TypeError == "'>' not supported between instances of 'float' and 'str'"
AttributeError == "'str' object has no attribute 'get'"

\* what one monitor evaluation hands back: the detector's new attributes and
\* the DriftResult
Out(self, result) == [self |-> self, result |-> result]

\* DriftDetector._mock_monitor; rnd holds the two random draws
mock_monitor(self, monitor_name, drift_type, threshold, rnd) ==
    Out(self, DriftResult(monitor_name, drift_type, rnd.detected,
                          IF rnd.detected THEN "warning" ELSE "info",
                          rnd.metric, threshold, NoDetails, "mock"))

\* a schema check that reports the baseline as established and keeps nothing
detect_schema_drift_unstored(self, monitor_name, conn) ==
    Out(self, DriftResult(monitor_name, "schema", FALSE, "info", None, None,
                          NoDetails, "Baseline established"))

\* DriftDetector._detect_schema_drift; conn.fail: the connector call raises
detect_schema_drift(self, monitor_name, conn) ==
    IF conn.fail
    THEN Out(self, DriftResult(monitor_name, "schema", FALSE, "error", None, None,
                               NoDetails,
                               "Schema drift detection failed: " \o ConnectorError))
    ELSE LET current_schema == conn.table.schema IN
         IF current_schema = <<>>
         THEN Out(self, DriftResult(monitor_name, "schema", FALSE, "info", None, None,
                                    NoDetails, "No schema found"))
         ELSE IF self.schema_baseline = NoBaseline
         THEN Out([self EXCEPT !.schema_baseline = current_schema],
                  DriftResult(monitor_name, "schema", FALSE, "info", None, None,
                              [columns |-> Len(current_schema)], "Baseline established"))
         ELSE LET diff == calculate_schema_diff(self.schema_baseline, current_schema)
                  has_drift == Cardinality(diff.added) > 0
                                 \/ Cardinality(diff.removed) > 0
                                 \/ Cardinality(diff.modified) > 0
              IN  Out(self, DriftResult(monitor_name, "schema", has_drift,
                                        IF has_drift THEN "critical" ELSE "info",
                                        None, None, diff,
                                        IF has_drift THEN "Schema drift"
                                        ELSE "No schema drift detected"))

\* history[-n:]
LastN(history, n) ==
    LET len == Len(history)
        from == IF n = 0 THEN 1
                ELSE IF n > 0 THEN (IF len - n < 0 THEN 0 ELSE len - n) + 1
                ELSE (IF -n > len THEN len ELSE -n) + 1
    IN  SubSeq(history, from, len)

RatMax1(x) == IF x > 1 THEN x ELSE 1

\* a stand-in that divides the relative difference itself by 10
ratio_z_score(current_count, baseline_count) ==
    Rat(Abs(current_count - baseline_count), RatMax1(baseline_count) * 10)

\* the z_score of fewer than two historical counts: pct_change / 10, where
\* pct_change = abs(current_count - baseline_count) / max(baseline_count, 1) * 100
pct_change_z_score(current_count, baseline_count) ==
    Rat(Abs(current_count - baseline_count) * 100, RatMax1(baseline_count) * 10)

\* a volume check that records the current count in the history before it
\* compares the z-score with the threshold
detect_volume_drift_recording(self, monitor_name, threshold, conn) ==
    IF conn.fail
    THEN Out(self, DriftResult(monitor_name, "volume", FALSE, "error", None, None,
                               NoDetails, "Volume drift detection failed: " \o ConnectorError))
    ELSE LET seen == [self EXCEPT !.volume_baseline =
                                     IF @ = NoCount THEN conn.table.row_count ELSE @,
                                  !.volume_history = Append(@, conn.table.row_count)]
         IN  IF ~IsNumber(threshold)
             THEN Out(seen, DriftResult(monitor_name, "volume", FALSE, "error", None, None,
                                        NoDetails,
                                        "Volume drift detection failed: " \o TypeError))
             ELSE Out(seen, DriftResult(monitor_name, "volume", FALSE, "info", None,
                                        threshold, NoDetails, "Volume stable"))

\* DriftDetector._detect_volume_drift
detect_volume_drift(self, monitor_name, threshold, conn) ==
    LET failed(e) == Out(self, DriftResult(monitor_name, "volume", FALSE, "error", None,
                                           None, NoDetails,
                                           "Volume drift detection failed: " \o e))
    IN
    IF conn.fail THEN failed(ConnectorError)
    ELSE LET current_count == conn.table.row_count
             baseline_count == self.volume_baseline
             historical_counts == self.volume_history
         IN
         IF baseline_count = NoCount
         THEN Out([self EXCEPT !.volume_baseline = current_count,
                               !.volume_history = <<current_count>>],
                  DriftResult(monitor_name, "volume", FALSE, "info",
                              Rat(current_count, 1), threshold,
                              [current_count |-> current_count], "Baseline established"))
         ELSE LET z_score ==
                      IF Len(historical_counts) >= 2
                      THEN calculate_zscore(current_count, historical_counts)
                      ELSE pct_change_z_score(current_count, baseline_count)
              IN  IF ~IsNumber(threshold) THEN failed(TypeError)
                  ELSE LET has_drift == NumGt(NumAbs(z_score), threshold)
                           appended == Append(self.volume_history, current_count)
                           history == IF Len(appended) > self.baseline_days
                                      THEN LastN(appended, self.baseline_days)
                                      ELSE appended
                       IN  Out([self EXCEPT !.volume_history = history],
                               DriftResult(monitor_name, "volume", has_drift,
                                           IF has_drift THEN "warning" ELSE "info",
                                           NumAbs(z_score), threshold,
                                           [current_count |-> current_count,
                                            baseline_count |-> baseline_count,
                                            z_score |-> z_score],
                                           IF has_drift THEN "Volume drift detected"
                                           ELSE "Volume stable"))

\* DriftDetector._detect_distribution_drift
detect_distribution_drift(self, monitor_name, column, threshold, conn) ==
    LET failed(e) == Out(self, DriftResult(monitor_name, "distribution", FALSE, "error",
                                           None, None, NoDetails,
                                           "Distribution drift detection failed: " \o e))
    IN
    IF column = Absent \/ column = ""
    THEN Out(self, DriftResult(monitor_name, "distribution", FALSE, "error", None, None,
                               NoDetails, "Column name required"))
    ELSE IF conn.fail THEN failed(ConnectorError)
    ELSE LET current_dist == conn.table.dist[column]
             baseline_dist == self.dist_baseline[column]
         IN
         IF current_dist = <<>>
         THEN Out(self, DriftResult(monitor_name, "distribution", FALSE, "info", None, None,
                                    NoDetails, "No data found"))
         ELSE IF baseline_dist = NoBaseline
         THEN Out([self EXCEPT !.dist_baseline[column] = current_dist],
                  DriftResult(monitor_name, "distribution", FALSE, "info", None, None,
                              [unique_values |-> Len(current_dist)],
                              "Baseline established"))
         ELSE LET psi == calculate_psi(baseline_dist, current_dist) IN
              IF ~IsNumber(threshold) THEN failed(TypeError)
              ELSE LET has_drift == NumGt(psi, threshold)
                   IN  Out(self, DriftResult(monitor_name, "distribution", has_drift,
                                             IF has_drift THEN "warning" ELSE "info",
                                             psi, threshold,
                                             [column |-> column, psi |-> psi,
                                              current_unique_values |-> Len(current_dist),
                                              baseline_unique_values |-> Len(baseline_dist)],
                                             IF has_drift THEN "Distribution drift detected"
                                             ELSE "Distribution stable"))

\* monitor.get(...) on a list entry that is no mapping raises AttributeError
RunMonitorRaises(monitor) == ~monitor.isdict

\* DriftDetector._run_monitor, for a monitor that is a mapping
run_monitor(self, monitor, conn, rnd) ==
    LET drift_type == IF monitor.type = Absent THEN "unknown" ELSE monitor.type
        monitor_name == IF monitor.name = Absent THEN drift_type \o "_monitor"
                        ELSE monitor.name
        threshold == IF monitor.threshold = ThresholdAbsent
                     THEN default_threshold(drift_type) ELSE monitor.threshold
    IN  IF self.mock_mode
        THEN mock_monitor(self, monitor_name, drift_type, threshold, rnd)
        ELSE CASE drift_type = "schema" -> detect_schema_drift(self, monitor_name, conn)
               [] drift_type = "volume" ->
                     detect_volume_drift(self, monitor_name, threshold, conn)
               [] drift_type = "distribution" ->
                     detect_distribution_drift(self, monitor_name, monitor.column,
                                               threshold, conn)
               [] OTHER ->
                     Out(self, DriftResult(monitor_name, drift_type, FALSE, DefaultSeverity,
                                           None, None, NoDetails, "Unknown drift type"))

\* --------------------------------------------------- EvidentlyDriftDetector

\* settings.EVIDENTLY_DRIFT_THRESHOLD, the default of monitor.get("threshold", ...)
EvidentlyDefaultThreshold == Rat(1, 10)

\* a pandas DataFrame as the detector reads it: its column names and its length;
\* pd.DataFrame([]) has no columns
Frame(columns, rows) == [columns |-> columns, rows |-> rows]
EmptyFrame == Frame({}, 0)
NoFrame == [columns |-> {}, rows |-> -1]

\* what an Evidently Report hands back for one metric: an exception, an empty
\* metrics list, or the metric's value
LibRaises == [kind |-> "raise", value |-> None]
LibNoMetrics == [kind |-> "no_metrics", value |-> None]
LibValue(v) == [kind |-> "value", value |-> v]

\* threshold / 10
Tenth(t) == Rat(t.n, t.d * 10)

\* EvidentlyDriftDetector._detect_column_drift; lib is the outcome of the
\* ValueDrift report
detect_column_drift(column, monitor_name, threshold, lib) ==
    LET failed == DriftResult(monitor_name, "distribution", FALSE, DefaultSeverity, None,
                              None, NoDetails, "Column drift detection failed")
    IN
    IF lib.kind = "raise" THEN failed
    ELSE IF lib.kind = "no_metrics"
    THEN DriftResult(monitor_name, "distribution", FALSE, DefaultSeverity, None, None,
                     NoDetails, "No metrics returned for column")
    ELSE IF ~IsNumber(threshold) THEN failed
    ELSE LET p_value == lib.value
             drift_detected == NumLt(p_value, threshold)
             severity == IF NumLt(p_value, Tenth(threshold)) THEN "critical"
                         ELSE IF drift_detected THEN "warning" ELSE "info"
         IN  DriftResult(monitor_name, "distribution", drift_detected, severity, p_value,
                         threshold, [column |-> column, p_value |-> p_value],
                         "Column drift p-value")

\* EvidentlyDriftDetector._detect_dataset_drift; lib is the outcome of the
\* DriftedColumnsCount report (the share of drifted columns)
detect_dataset_drift(monitor_name, threshold, lib) ==
    LET failed == DriftResult(monitor_name, "dataset", FALSE, DefaultSeverity, None, None,
                              NoDetails, "Dataset drift detection failed")
    IN
    IF lib.kind = "raise" THEN failed
    ELSE IF lib.kind = "no_metrics"
    THEN DriftResult(monitor_name, "dataset", FALSE, DefaultSeverity, None, None,
                     NoDetails, "No metrics returned for dataset drift")
    ELSE IF ~IsNumber(threshold) THEN failed
    ELSE LET drift_share == lib.value
             drift_detected == NumGe(drift_share, threshold)
         IN  DriftResult(monitor_name, "dataset", drift_detected,
                         IF drift_detected THEN "critical" ELSE "info", drift_share,
                         threshold, [drift_share |-> drift_share], "Dataset drift")

\* EvidentlyDriftDetector._detect_schema_drift
evidently_detect_schema_drift(baseline_data, current_data, monitor_name) ==
    LET baseline_cols == baseline_data.columns
        current_cols == current_data.columns
        added == current_cols \ baseline_cols
        removed == baseline_cols \ current_cols
        drift_detected == added # {} \/ removed # {}
    IN  DriftResult(monitor_name, "schema", drift_detected,
                    IF removed # {} THEN "critical"
                    ELSE IF added # {} THEN "warning" ELSE "info",
                    None, None, [added_columns |-> added, removed_columns |-> removed],
                    "Schema changes")

\* the change_ratio of EvidentlyDriftDetector._detect_volume_drift
change_ratio(baseline_count, current_count) ==
    IF baseline_count = 0
    THEN (IF current_count > 0 THEN Inf(1) ELSE Rat(0, 1))
    ELSE Rat(Abs(current_count - baseline_count), baseline_count)

\* change_ratio > threshold raises TypeError when the threshold is no number
VolumeDriftRaises(threshold) == ~IsNumber(threshold)

\* a volume check that also reports a change_ratio equal to the threshold
detect_volume_drift_inclusive(baseline_data, current_data, monitor_name, threshold) ==
    LET ratio == change_ratio(baseline_data.rows, current_data.rows)
        drift_detected == NumGe(ratio, threshold)
    IN  DriftResult(monitor_name, "volume", drift_detected,
                    IF drift_detected THEN "warning" ELSE "info", ratio, threshold,
                    [baseline_count |-> baseline_data.rows,
                     current_count |-> current_data.rows, change_ratio |-> ratio],
                    "Volume change")

\* EvidentlyDriftDetector._detect_volume_drift, for a numeric threshold
evidently_detect_volume_drift(baseline_data, current_data, monitor_name, threshold) ==
    LET baseline_count == baseline_data.rows
        current_count == current_data.rows
        ratio == change_ratio(baseline_count, current_count)
        drift_detected == NumGt(ratio, threshold)
    IN  DriftResult(monitor_name, "volume", drift_detected,
                    IF drift_detected THEN "warning" ELSE "info", ratio, threshold,
                    [baseline_count |-> baseline_count, current_count |-> current_count,
                     change_ratio |-> ratio],
                    "Volume change")

\* the result _run_evidently_detection appends when its try block raises
ErrorResult(monitor_name, message) ==
    DriftResult(monitor_name, "error", FALSE, DefaultSeverity, None, None, NoDetails,
                message)

\* the body of _run_evidently_detection's loop for one monitor:
\* kind "raise" (the exception leaves the loop), "skip" (no branch matches, nothing
\* is appended) or "result"
evidently_monitor(monitor, baseline_data, current_data, lib) ==
    IF ~monitor.isdict THEN [kind |-> "raise", message |-> AttributeError]
    ELSE
    LET monitor_name == IF monitor.name = Absent THEN "unnamed" ELSE monitor.name
        drift_type == IF monitor.type = Absent THEN "distribution" ELSE monitor.type
        threshold == IF monitor.threshold = ThresholdAbsent
                     THEN EvidentlyDefaultThreshold ELSE monitor.threshold
        column == monitor.column
    IN  IF drift_type = "distribution" /\ column \notin {Absent, ""}
        THEN [kind |-> "result",
              result |-> detect_column_drift(column, monitor_name, threshold, lib)]
        ELSE IF drift_type = "dataset"
        THEN [kind |-> "result",
              result |-> detect_dataset_drift(monitor_name, threshold, lib)]
        ELSE IF drift_type = "schema"
        THEN [kind |-> "result",
              result |-> evidently_detect_schema_drift(baseline_data, current_data,
                                                       monitor_name)]
        ELSE IF drift_type = "volume"
        THEN IF VolumeDriftRaises(threshold)
             THEN [kind |-> "raise", message |-> TypeError]
             ELSE [kind |-> "result",
                   result |-> evidently_detect_volume_drift(baseline_data, current_data,
                                                            monitor_name, threshold)]
        ELSE [kind |-> "skip"]

\* whether the loop body asks an Evidently report for this monitor
UsesReport(monitor) ==
    /\ monitor.isdict
    /\ \/ monitor.type = "dataset"
       \/ monitor.type \in {Absent, "distribution"} /\ monitor.column \notin {Absent, ""}

\* ------------------------------------------------------- drift YAML validator

VALID_DRIFT_TYPES == {"schema", "volume", "distribution", "dataset"}
VALID_STATTESTS ==
    {"ks", "chisquare", "z", "wasserstein", "psi", "jensenshannon", "kl_div",
     "anderson", "cramer_von_mises"}

\* an entry of DatasetValidation.errors / warnings: its type and the monitor
\* index its message names (i counts from 0)
Finding(type, i) == [type |-> type, index |-> i]

\* a validation loop that also takes a missing name for an error
monitor_errors_strict(monitor, i) ==
    IF ~monitor.isdict THEN <<Finding("invalid_monitor", i)>>
    ELSE (IF monitor.type \notin VALID_DRIFT_TYPES
          THEN <<Finding("invalid_type", i)>> ELSE <<>>)
         \o (IF monitor.name = Absent THEN <<Finding("missing_name", i)>> ELSE <<>>)

\* the errors validate_drift_yaml's loop appends for the monitor at index i
monitor_errors(monitor, i) ==
    IF ~monitor.isdict THEN <<Finding("invalid_monitor", i)>>
    ELSE (IF monitor.type = Absent THEN <<Finding("missing_field", i)>>
          ELSE IF monitor.type \notin VALID_DRIFT_TYPES
          THEN <<Finding("invalid_type", i)>> ELSE <<>>)
         \o (IF monitor.type = "distribution" /\ monitor.column = Absent
             THEN <<Finding("missing_column", i)>> ELSE <<>>)

\* the warnings it appends for the monitor at index i
monitor_warnings(monitor, i) ==
    IF ~monitor.isdict THEN <<>>
    ELSE (IF monitor.name = Absent THEN <<Finding("missing_name", i)>> ELSE <<>>)
         \o (IF monitor.stattest # Absent /\ monitor.stattest \notin VALID_STATTESTS
             THEN <<Finding("unknown_stattest", i)>> ELSE <<>>)
         \o (IF monitor.threshold = ThresholdAbsent
             THEN <<Finding("missing_threshold", i)>> ELSE <<>>)

RECURSIVE CollectFindings(_, _, _)
CollectFindings(errors, monitors, i) ==
    IF i >= Len(monitors) THEN <<>>
    ELSE (IF errors THEN monitor_errors(monitors[i + 1], i)
                    ELSE monitor_warnings(monitors[i + 1], i))
         \o CollectFindings(errors, monitors, i + 1)

\* validate_drift_yaml, for a document that parses: None, a mapping without
\* the monitors key, or a mapping with a monitors list
validate_drift_yaml(config) ==
    IF config.kind = "none"
    THEN [valid |-> FALSE, errors |-> <<Finding("structure_error", -1)>>,
          warnings |-> <<>>, monitor_count |-> 0]
    ELSE IF config.kind = "nokey"
    THEN [valid |-> FALSE, errors |-> <<Finding("missing_key", -1)>>,
          warnings |-> <<>>, monitor_count |-> 0]
    ELSE LET errors == CollectFindings(TRUE, config.monitors, 0)
         IN  [valid |-> Len(errors) = 0,
              errors |-> errors,
              warnings |-> CollectFindings(FALSE, config.monitors, 0),
              monitor_count |->
                  Cardinality({i \in 1..Len(config.monitors) : config.monitors[i].isdict})]

\* ------------------------------------------------------------ input domains

\* INFORMATION_SCHEMA rows the connector can return for the monitored table
SchemaBase ==
    <<[COLUMN_NAME |-> "id", DATA_TYPE |-> "int"],
      [COLUMN_NAME |-> "amount", DATA_TYPE |-> "float"]>>
SchemaAdded == SchemaBase \o <<[COLUMN_NAME |-> "status", DATA_TYPE |-> "string"]>>
Schemas == {<<>>, SchemaBase, SchemaAdded}

RowCounts == {0, 2}

\* value distributions of column STATUS: rows of {VALUE, COUNT}
DistEven == <<[VALUE |-> "pending", COUNT |-> 1], [VALUE |-> "completed", COUNT |-> 1]>>
DistSkew == <<[VALUE |-> "pending", COUNT |-> 1], [VALUE |-> "completed", COUNT |-> 3]>>
Dists == {<<>>, DistEven, DistSkew}

Tables == [schema : Schemas, row_count : RowCounts, dist : [Columns -> Dists]]

Thresholds == {ThresholdAbsent, Rat(0, 1), BadNumber}

\* the monitor declarations explored with DriftDetector; a key the code never
\* reads for a type (column outside distribution, threshold of a schema monitor
\* or of a type it does not know, threshold of a distribution monitor without
\* column) is left out
Monitors ==
    {ScalarMonitor, Monitor("schema", Absent, Absent, ThresholdAbsent),
     Monitor("dataset", Absent, Absent, ThresholdAbsent),
     Monitor("distribution", Absent, Absent, ThresholdAbsent)}
    \cup {Monitor("volume", Absent, Absent, th) : th \in Thresholds}
    \cup {Monitor("distribution", Absent, c, th) : c \in Columns, th \in Thresholds}

RECURSIVE SeqsUpTo(_, _)
SeqsUpTo(S, n) ==
    IF n = 0 THEN {<<>>}
    ELSE LET shorter == SeqsUpTo(S, n - 1)
         IN  shorter \cup {Append(q, x) : q \in {r \in shorter : Len(r) = n - 1}, x \in S}

\* yaml.safe_load(drift_yaml): a mapping with a monitors list, or None for an
\* empty document
EmptyConfig == [kind |-> "none", monitors |-> <<>>]
\* a mapping without the monitors key: config.get("monitors", []) is []
NoMonitorsKey == [kind |-> "nokey", monitors |-> <<>>]
Config(monitors) == [kind |-> "dict", monitors |-> monitors]

\* the drift YAML documents detect() is called with
Configs == {EmptyConfig} \cup {Config(ms) : ms \in SeqsUpTo(Monitors, MaxMonitors)}

\* the random draws of _mock_monitor
MockDraws == [detected : BOOLEAN, metric : {Rat(0, 1), Rat(1, 4)}]
NoDraw == [detected |-> FALSE, metric |-> Rat(0, 1)]

\* the baseline_days a detector is constructed with
BaselineDays == 2

\* ------------------------------------------------------------------- state

VARIABLES
    table,       \* the monitored table as the connector sees it
    self,        \* the attributes of the DriftDetector instance
    pc,          \* position of detect(): "idle", "loop", "returned", "raised"
    config,      \* the parsed drift YAML of the detect() call in progress
    results,     \* detect()'s local list of DriftResults
    run_result,  \* the DriftRunResult handed to the caller
    prior,       \* the detector's attributes when the detect() call began
    detects,     \* detect() calls made so far
    established, \* schema baselines established so far for the dataset
    dataset,     \* the parsed drift_yaml of the dataset row, once it is created
    validation,  \* what the last create_dataset request validated, and the outcome
    runs,        \* the runs table: the status of every run record, by run id
    caller,      \* who executes the drift run in progress
    run_id,      \* the id of the run record it works on (0: none)
    rpc,         \* its position: "idle", "created", "try", "detect", "handed"
    e_pc,        \* position of EvidentlyDriftDetector.detect
    e_localstack,\* whether its connector is in LocalStack mode
    e_current,   \* current_data
    e_reference, \* reference_data
    e_fetch,     \* how its last query ended: "none", "ok", "empty", "failed"
    e_next,      \* index of the monitor its loop is at
    e_results,   \* the results list of _run_evidently_detection
    e_raised,    \* indices of the monitors whose evaluation raised an exception
    s3,          \* the baseline bucket: per baseline key, its parquet and metadata objects
    sv,          \* the BaselineStorage call each Lambda invocation is in
    calls,       \* save_baseline calls begun so far
    f_op,        \* the function of the drift package last evaluated on its own
    f_args,      \* the arguments of that evaluation
    f_out        \* the value it returned

dvars == <<table, self, pc, config, results, run_result, prior, detects, established>>
rvars == <<dataset, validation, runs, caller, run_id, rpc>>
evars == <<e_pc, e_localstack, e_current, e_reference, e_fetch, e_next, e_results, e_raised>>
svars == <<s3, sv, calls>>
fvars == <<f_op, f_args, f_out>>
vars == <<dvars, rvars, evars, svars, fvars>>

\* ------------------------------------------------------- baseline storage

\* save_baseline calls explored
MaxSaves == 3

\* the (tenant_id, dataset_id) pairs baselines are kept for, and the Lambda
\* invocations that work on them
BaselineKeys == {"t1/d1", "t1/d2"}
Invocations == {"a", "b"}

\* a pandas DataFrame handed to save_baseline: its column labels in order, its
\* length, and whether the labels are strings
DataFrame(columns, rows, labels) == [columns |-> columns, rows |-> rows, labels |-> labels]
NoDataFrame == DataFrame(<<>>, -1, "none")
DataFrames ==
    {DataFrame(<<"ID", "STATUS">>, 2, "str"), DataFrame(<<"ID">>, 3, "str"),
     DataFrame(<<"0", "1">>, 2, "int")}

\* DataFrame.to_parquet(buffer, index=False, engine='pyarrow'): the file's
\* schema and row count; labels that are not strings raise ValueError
ToParquetRaises(data) == data.labels # "str"
to_parquet(data) == [schema |-> data.columns, num_rows |-> data.rows]
\* pd.read_parquet(buffer)
read_parquet(body) == DataFrame(body.schema, body.num_rows, "str")

\* the metadata argument of save_baseline: None, the keys the baseline Lambda
\* passes, or a dict that names columns and row_count itself
Metadata(table_name, has_columns, columns, has_row_count, row_count) ==
    [table_name |-> table_name, has_columns |-> has_columns, columns |-> columns,
     has_row_count |-> has_row_count, row_count |-> row_count]
NoMetadata == Metadata(Absent, FALSE, <<>>, FALSE, 0)
Metadatas ==
    {NoMetadata, Metadata("ORDERS", FALSE, <<>>, FALSE, 0),
     Metadata("ORDERS", TRUE, <<"ID">>, TRUE, 2)}

\* the meta dict of save_baseline: the computed keys, then **(metadata or {})
baseline_meta(data, metadata) ==
    [row_count |-> IF metadata.has_row_count THEN metadata.row_count ELSE data.rows,
     columns |-> IF metadata.has_columns THEN metadata.columns ELSE data.columns,
     table_name |-> metadata.table_name]

\* an S3 object: absent, or the body put by a save_baseline call
NoObject == [exists |-> FALSE, body |-> NoDataFrame, call |-> 0]
Object(body, call) == [exists |-> TRUE, body |-> body, call |-> call]
NoBaselines == [key \in BaselineKeys |-> [parquet |-> NoObject, metadata |-> NoObject]]

\* BaselineStorage.load_baseline and get_metadata: None when the object is
\* missing
load_baseline(bucket, key) ==
    IF bucket[key].parquet.exists THEN read_parquet(bucket[key].parquet.body)
    ELSE NoDataFrame
get_metadata(bucket, key) ==
    IF bucket[key].metadata.exists THEN bucket[key].metadata.body
    ELSE baseline_meta(NoDataFrame, NoMetadata)
baseline_exists(bucket, key) == bucket[key].parquet.exists

\* an invocation that is in no BaselineStorage call
NoCall ==
    [at |-> "idle", key |-> "", data |-> NoDataFrame, metadata |-> NoMetadata, call |-> 0]
IdleStore ==
    /\ s3 = NoBaselines
    /\ sv = [p \in Invocations |-> NoCall]
    /\ calls = 0

\* no function evaluated on its own yet
IdleStat ==
    /\ f_op = "none"
    /\ f_args = <<>>
    /\ f_out = <<>>

NoRunResult == [status |-> "pending", results |-> <<>>, returned |-> FALSE]
DriftRunResult(status, rs) == [status |-> status, results |-> rs, returned |-> TRUE]

\* no dataset, no run, no caller at work
NoDataset == [kind |-> "missing", monitors |-> <<>>]
\* a DatasetValidation, with the document it was computed for
DatasetValidation(yaml, result) == [validated |-> TRUE, yaml |-> yaml, result |-> result]
NoValidation ==
    [validated |-> FALSE, yaml |-> NoDataset,
     result |-> [valid |-> FALSE, errors |-> <<>>, warnings |-> <<>>, monitor_count |-> 0]]
InitRun ==
    /\ dataset = NoDataset
    /\ validation = NoValidation
    /\ runs = <<>>
    /\ caller = "none"
    /\ run_id = 0
    /\ rpc = "idle"
    /\ e_pc = "idle"
    /\ e_localstack = FALSE
    /\ e_current = NoFrame
    /\ e_reference = NoFrame
    /\ e_fetch = "none"
    /\ e_next = 0
    /\ e_results = <<>>
    /\ e_raised = {}

Init ==
    /\ InitRun
    /\ IdleStore
    /\ IdleStat
    /\ table \in Tables
    /\ self \in {NewDetectorState(BaselineDays, m) : m \in {"True", "False"}}
    /\ pc = "idle"
    /\ config = EmptyConfig
    /\ results = <<>>
    /\ run_result = NoRunResult
    /\ prior = self
    /\ detects = 0
    /\ established = 0

\* DriftDetector(connector, baseline_days, mock_mode): the caller replaces its
\* detector by a new instance, unless the constructor raises
NewDetector ==
    /\ pc = "idle"
    /\ \E mock_mode \in MockModeArgs :
      self' = IF DetectorInitRaises(mock_mode) THEN self
               ELSE NewDetectorState(BaselineDays, mock_mode)
    /\ prior' = self'
    /\ UNCHANGED <<table, pc, config, results, run_result, detects, established>>
    /\ UNCHANGED <<rvars, evars, svars, fvars>>

\* DriftDetector.detect up to the loop: yaml.safe_load and config.get; t is the
\* monitored table as it is during this call
DetectStart ==
    /\ pc = "idle"
    /\ detects < MaxDetects
    /\ \E cfg \in Configs, t \in Tables :
          /\ table' = t
          /\ config' = cfg
          /\ pc' = IF cfg.kind = "none" THEN "raised" ELSE "loop"
    /\ detects' = detects + 1
    /\ results' = <<>>
    /\ prior' = self
    /\ run_result' = NoRunResult
    /\ UNCHANGED <<self, established>>
    /\ UNCHANGED <<rvars, evars, svars, fvars>>

\* one iteration of detect's loop: await self._run_monitor(...)
DetectMonitor ==
    /\ pc = "loop"
    /\ Len(results) < Len(config.monitors)
    /\ LET monitor == config.monitors[Len(results) + 1] IN
       IF RunMonitorRaises(monitor)
       THEN /\ pc' = "raised"
            /\ results' = <<>>
            /\ UNCHANGED <<self, established>>
       ELSE \E fail \in (IF self.mock_mode THEN {FALSE} ELSE BOOLEAN),
               rnd \in (IF self.mock_mode THEN MockDraws ELSE {NoDraw}) :
                LET out == run_monitor(self, monitor, [fail |-> fail, table |-> table], rnd)
                IN  /\ self' = out.self
                    /\ results' = Append(results, out.result)
                    /\ established' =
                         IF out.self.schema_baseline # self.schema_baseline
                         THEN established + 1 ELSE established
                    /\ pc' = pc
    /\ UNCHANGED <<table, config, run_result, prior, detects>>
    /\ UNCHANGED <<rvars, evars, svars, fvars>>

\* detect returns DriftRunResult(status="completed", results=results)
DetectReturn ==
    /\ pc = "loop"
    /\ Len(results) = Len(config.monitors)
    /\ pc' = "returned"
    /\ run_result' = DriftRunResult("completed", results)
    /\ UNCHANGED <<table, self, config, results, prior, detects, established>>
    /\ UNCHANGED <<rvars, evars, svars, fvars>>

\* the caller is done with what detect() returned or raised
CallerDone ==
    /\ pc \in {"returned", "raised"}
    /\ pc' = "idle"
    /\ config' = EmptyConfig
    /\ results' = <<>>
    /\ run_result' = NoRunResult
    /\ prior' = self
    /\ UNCHANGED <<table, self, detects, established>>
    /\ UNCHANGED <<rvars, evars, svars, fvars>>

Next ==
    \/ NewDetector
    \/ CallerDone
    \/ DetectStart
    \/ DetectMonitor
    \/ DetectReturn

Spec == Init /\ [][Next]_vars

\* ------------------------------------------------- claims on DriftDetector

\* a step of detect's loop that appended the result of one monitor
MonitorStep == pc = "loop" /\ Len(results') = Len(results) + 1
\* the monitor that step evaluates, and the result it appended
StepMonitor == config.monitors[Len(results) + 1]
StepResult == results'[Len(results')]

\* the monitor evaluation behind a result met a connector failure
ConnectorFailed(r) ==
    r.message \in {"Schema drift detection failed: " \o ConnectorError,
                   "Volume drift detection failed: " \o ConnectorError,
                   "Distribution drift detection failed: " \o ConnectorError}

\* C7: whatever results a run holds (while they are appended and once returned,
\* error results included), drift_detected_count is the number of results with
\* detected = true, total_monitors is len(results), and the count never
\* exceeds the total.
C7_CountsAreLive ==
    \A rs \in {results, run_result.results} :
        /\ drift_detected_count(rs) = Cardinality({i \in 1..Len(rs) : rs[i].detected})
        /\ total_monitors(rs) = Len(rs)
        /\ drift_detected_count(rs) <= total_monitors(rs)

\* a returned run that mixes an error result with a detected drift
C7_Witness ==
    /\ run_result.returned
    /\ \E i, j \in 1..Len(run_result.results) :
          /\ run_result.results[i].severity = "error"
          /\ run_result.results[j].detected
    /\ drift_detected_count(run_result.results) = 1

\* C3 as stated: with no baseline, the first evaluation of a schema monitor, and
\* of a distribution monitor for a column, always reports detected = false and
\* stores the current schema / distribution as the (non-empty) baseline.
C3_FirstEvaluationAlwaysStores ==
    [][MonitorStep =>
         /\ (StepMonitor.type = "schema" /\ self.schema_baseline = NoBaseline) =>
                /\ ~StepResult.detected
                /\ self'.schema_baseline = table.schema
                /\ self'.schema_baseline # NoBaseline
         /\ (/\ StepMonitor.type = "distribution"
             /\ StepMonitor.column \in Columns
             /\ self.dist_baseline[StepMonitor.column] = NoBaseline) =>
                /\ ~StepResult.detected
                /\ self'.dist_baseline[StepMonitor.column] = table.dist[StepMonitor.column]
                /\ self'.dist_baseline[StepMonitor.column] # NoBaseline]_vars

\* C3 amended: in a detector that is not in mock mode, the first evaluation
\* without a baseline reports detected = false; it stores the current schema /
\* distribution as the baseline exactly when the connector call succeeds and
\* returns at least one row, and otherwise leaves the baseline absent; a stored
\* baseline is not changed by any later evaluation of the same detector.
C3_FirstEvaluationStoresFetched ==
    [][(MonitorStep /\ ~self.mock_mode) =>
         /\ (StepMonitor.type = "schema" /\ self.schema_baseline = NoBaseline) =>
                /\ ~StepResult.detected
                /\ self'.schema_baseline =
                      IF ConnectorFailed(StepResult) THEN NoBaseline ELSE table.schema
         /\ (/\ StepMonitor.type = "distribution"
             /\ StepMonitor.column \in Columns
             /\ self.dist_baseline[StepMonitor.column] = NoBaseline) =>
                /\ ~StepResult.detected
                /\ self'.dist_baseline[StepMonitor.column] =
                      IF ConnectorFailed(StepResult) THEN NoBaseline
                      ELSE table.dist[StepMonitor.column]
         /\ self.schema_baseline # NoBaseline => self'.schema_baseline = self.schema_baseline
         /\ \A c \in Columns :
               self.dist_baseline[c] # NoBaseline => self'.dist_baseline[c] = self.dist_baseline[c]]_vars

\* a first run that established both baselines from the fetched data, and they
\* are still there when detect returns
C3_Witness ==
    /\ pc = "returned"
    /\ ~self.mock_mode
    /\ prior.schema_baseline = NoBaseline
    /\ prior.dist_baseline["STATUS"] = NoBaseline
    /\ Len(results) = 2
    /\ results[1].drift_type = "schema" /\ results[1].message = "Baseline established"
    /\ results[2].drift_type = "distribution" /\ results[2].message = "Baseline established"
    /\ self.schema_baseline = table.schema /\ table.schema # <<>>
    /\ self.dist_baseline["STATUS"] = table.dist["STATUS"] /\ table.dist["STATUS"] # <<>>

\* C4: once a schema baseline has been established for the dataset, no later
\* evaluation, whichever detector instance runs it, establishes a baseline
\* again.
C4_BaselineEstablishedOnce == [][established >= 1 => established' = established]_vars

\* C9: the detected flag of every monitor of a returned run is the one the
\* monitor gets when it is evaluated alone on the same table, with the same
\* connector outcome, from the baseline state the run began with.
C9_MonitorsIndependent ==
    (pc = "returned" /\ ~prior.mock_mode) =>
        \A i \in 1..Len(results) :
            run_monitor(prior, config.monitors[i],
                        [fail |-> ConnectorFailed(results[i]), table |-> table],
                        NoDraw).result.detected = results[i].detected
\* ----------------------------------------- drift runs and their run records

\* the frames the connector's queries return
Frames == {EmptyFrame, Frame({"ID", "STATUS"}, 2), Frame({"ID", "STATUS"}, 3),
           Frame({"ID"}, 2)}

\* values an Evidently metric reports: a p-value, or a share of drifted columns
MetricValues == {Rat(0, 1), Rat(1, 2), Rat(1, 1)}
LibOutcomes == {LibRaises, LibNoMetrics} \cup {LibValue(v) : v \in MetricValues}

\* the monitor declarations explored with EvidentlyDriftDetector; a key the
\* code never reads for a type is left out
EvidentlyMonitors ==
    {ScalarMonitor,
     Monitor("schema", Absent, Absent, ThresholdAbsent),
     Monitor("volume", Absent, Absent, Rat(1, 2)),
     Monitor("volume", Absent, Absent, BadNumber),
     Monitor("dataset", Absent, Absent, Rat(1, 2)),
     Monitor("distribution", Absent, "STATUS", Rat(1, 2)),
     Monitor("distribution", Absent, "STATUS", ThresholdAbsent),
     Monitor("distribution", Absent, Absent, ThresholdAbsent),
     Monitor("distribution", Absent, "", ThresholdAbsent),
     Monitor("freshness", Absent, Absent, ThresholdAbsent),
     Monitor(Absent, Absent, "STATUS", ThresholdAbsent),
     WithStattest(Monitor("schema", "s", Absent, Rat(1, 2)), "bogus")}

\* the drift_yaml documents a dataset row can hold
DatasetConfigs ==
    {EmptyConfig, NoMonitorsKey}
    \cup {Config(ms) : ms \in SeqsUpTo(EvidentlyMonitors, MaxMonitors)}

Callers == {"api", "lambda", "airflow", "streamlit"}

\* the specification of the run records explores no DriftDetector instance
IdleDetector ==
    /\ table = [schema |-> <<>>, row_count |-> 0, dist |-> [c \in Columns |-> <<>>]]
    /\ self = NewDetectorState(BaselineDays, "False")
    /\ pc = "idle"
    /\ config = EmptyConfig
    /\ results = <<>>
    /\ run_result = NoRunResult
    /\ prior = self
    /\ detects = 0
    /\ established = 0

InitRuns == IdleDetector /\ InitRun /\ IdleStore /\ IdleStat

SetStatus(status) == runs' = [runs EXCEPT ![run_id] = status]

\* the caller leaves its handler; the detector it created is dropped
Leave ==
    /\ caller' = "none"
    /\ run_id' = 0
    /\ rpc' = "idle"
    /\ e_pc' = "idle"
    /\ e_localstack' = FALSE
    /\ e_current' = NoFrame
    /\ e_reference' = NoFrame
    /\ e_fetch' = "none"
    /\ e_next' = 0
    /\ e_results' = <<>>
    /\ e_raised' = {}

\* a create_dataset request: the API's create_dataset validates the drift_yaml
\* and answers 400 without writing the row when it is invalid; the Streamlit
\* app's create_dataset stores what it is given and validates nothing
CreateDataset ==
    /\ dataset = NoDataset
    /\ \E via \in {"api", "streamlit"}, cfg \in DatasetConfigs :
          IF via = "api"
          THEN LET result == validate_drift_yaml(cfg) IN
               /\ validation' = DatasetValidation(cfg, result)
               /\ dataset' = IF result.valid THEN cfg ELSE dataset
          ELSE /\ validation' = NoValidation
               /\ dataset' = cfg
    /\ UNCHANGED <<runs, caller, run_id, rpc, dvars, svars, fvars, evars>>

\* a caller starts a drift run and writes its run record: the API's
\* trigger_dataset_check and the Airflow task create it pending, the Lambda
\* handler (without run_id) and the Streamlit handler create it running
Trigger ==
    /\ rpc = "idle"
    /\ dataset # NoDataset
    /\ Len(runs) < MaxRuns
    /\ \E c \in Callers :
          /\ caller' = c
          /\ runs' = Append(runs, IF c \in {"api", "airflow"} THEN "pending" ELSE "running")
          /\ rpc' = IF c \in {"api", "airflow"} THEN "created" ELSE "try"
    /\ run_id' = Len(runs) + 1
    /\ UNCHANGED <<dataset, validation, dvars, svars, fvars, evars>>

\* the Lambda handler is invoked with the run_id of an existing run record:
\* create_or_update_run sets that record to running
LambdaUpdateRun ==
    /\ rpc = "idle"
    /\ \E id \in 1..Len(runs) :
          /\ run_id' = id
          /\ runs' = [runs EXCEPT ![id] = "running"]
    /\ caller' = "lambda"
    /\ rpc' = "try"
    /\ UNCHANGED <<dataset, validation, dvars, svars, fvars, evars>>

\* from the created run to the try block.  _run_drift_detection (API) returns
\* when the connection row is missing and else sets the run running; the
\* Airflow task looks up connection and credentials inside its try block, and
\* sets the run running after them
Begin ==
    /\ rpc = "created"
    /\ \E found \in BOOLEAN :
          IF found
          THEN /\ SetStatus("running")
               /\ rpc' = "try"
               /\ UNCHANGED <<caller, run_id, evars>>
          ELSE /\ IF caller = "api" THEN UNCHANGED runs ELSE SetStatus("failed")
               /\ Leave
    /\ UNCHANGED <<dataset, validation, dvars, svars, fvars>>

\* inside the try block up to detector.detect: credentials, connector, detector.
\* The API builds DriftDetector(snowflake_connector=connector), the others an
\* EvidentlyDriftDetector
Setup ==
    /\ rpc = "try"
    /\ \E ok \in BOOLEAN, localstack \in BOOLEAN :
          IF ~ok \/ (caller = "api" /\ DetectorInitRaises("None"))
          THEN /\ localstack
               /\ SetStatus("failed")
               /\ Leave
          ELSE /\ rpc' = IF caller = "api" THEN "handed" ELSE "detect"
               /\ e_pc' = IF caller = "api" THEN "idle" ELSE "start"
               /\ e_localstack' = localstack
               /\ UNCHANGED <<runs, caller, run_id, e_current, e_reference, e_fetch,
                              e_next, e_results, e_raised>>
    /\ UNCHANGED <<dataset, validation, dvars, svars, fvars>>
\* EvidentlyDriftDetector.detect up to the current data: yaml.safe_load,
\* config.get (AttributeError on an empty document) and _fetch_data
EvidentlyFetchCurrent ==
    /\ rpc = "detect"
    /\ e_pc = "start"
    /\ IF dataset.kind = "none"
       THEN e_pc' = "raised" /\ UNCHANGED <<e_current, e_fetch>>
       ELSE \E fail \in BOOLEAN, frame \in Frames :
               IF fail
               THEN /\ frame = EmptyFrame
                    /\ e_pc' = "raised"
                    /\ e_fetch' = "failed"
                    /\ UNCHANGED e_current
               ELSE /\ e_pc' = "reference"
                    /\ e_fetch' = IF frame = EmptyFrame THEN "empty" ELSE "ok"
                    /\ e_current' = frame
    /\ UNCHANGED <<e_localstack, e_reference, e_next, e_results, e_raised, rvars, dvars, svars, fvars>>

\* a reference fetch that falls back to the current data when its query fails
FetchReferenceOrCurrent ==
    /\ rpc = "detect"
    /\ e_pc = "reference"
    /\ \E fail \in BOOLEAN, frame \in Frames \ {EmptyFrame} :
          /\ e_fetch' = IF fail THEN "failed" ELSE "ok"
          /\ e_reference' = IF fail THEN e_current ELSE frame
    /\ e_pc' = "prepare"
    /\ UNCHANGED <<e_localstack, e_current, e_next, e_results, e_raised, rvars, dvars, svars, fvars>>

\* _get_reference_data_time_travel: in LocalStack mode the table is fetched
\* again as it is now; else the Time Travel query, which raises on an empty
\* result
EvidentlyFetchReference ==
    /\ rpc = "detect"
    /\ e_pc = "reference"
    /\ \E fail \in BOOLEAN, frame \in Frames :
          /\ e_fetch' = IF fail THEN "failed"
                        ELSE IF frame = EmptyFrame THEN "empty" ELSE "ok"
          /\ IF fail
             THEN frame = EmptyFrame /\ e_pc' = "raised" /\ UNCHANGED e_reference
             ELSE IF e_localstack
             THEN frame = e_current /\ e_pc' = "prepare" /\ e_reference' = frame
             ELSE IF frame = EmptyFrame
             THEN e_pc' = "raised" /\ UNCHANGED e_reference
             ELSE e_pc' = "prepare" /\ e_reference' = frame
    /\ UNCHANGED <<e_localstack, e_current, e_next, e_results, e_raised, rvars, dvars, svars, fvars>>

\* _run_evidently_detection up to its loop: the evidently imports and
\* Dataset.from_pandas; an exception here ends the function with one
\* "import_error" or "error" result
EvidentlyPrepare ==
    /\ rpc = "detect"
    /\ e_pc = "prepare"
    /\ \E outcome \in {"ok", "ImportError", "Exception"} :
          CASE outcome = "ok" ->
                  e_pc' = "loop" /\ e_next' = 1 /\ UNCHANGED e_results
            [] outcome = "ImportError" ->
                  /\ e_pc' = "returned"
                  /\ e_results' = <<ErrorResult("import_error",
                                                "Evidently package not installed")>>
                  /\ UNCHANGED e_next
            [] outcome = "Exception" ->
                  /\ e_pc' = "returned"
                  /\ e_results' = <<ErrorResult("error", "Exception")>>
                  /\ UNCHANGED e_next
    /\ UNCHANGED <<e_localstack, e_current, e_reference, e_fetch, e_raised, rvars, dvars, svars, fvars>>

\* the results that come from an exception caught inside a monitor's helper
CaughtInside(r) ==
    r.message \in {"Column drift detection failed", "Dataset drift detection failed"}

\* one iteration of _run_evidently_detection's loop
EvidentlyMonitor ==
    /\ rpc = "detect"
    /\ e_pc = "loop"
    /\ e_next <= Len(dataset.monitors)
    /\ LET monitor == dataset.monitors[e_next] IN
       \E lib \in (IF UsesReport(monitor) THEN LibOutcomes ELSE {LibNoMetrics}) :
          LET out == evidently_monitor(monitor, e_reference, e_current, lib) IN
          CASE out.kind = "raise" ->
                  /\ e_results' = Append(e_results, ErrorResult("error", out.message))
                  /\ e_raised' = e_raised \cup {e_next}
                  /\ e_pc' = "returned"
                  /\ UNCHANGED e_next
            [] out.kind = "skip" ->
                  /\ e_next' = e_next + 1
                  /\ UNCHANGED <<e_results, e_raised, e_pc>>
            [] out.kind = "result" ->
                  /\ e_results' = Append(e_results, out.result)
                  /\ e_raised' = IF CaughtInside(out.result)
                                 THEN e_raised \cup {e_next} ELSE e_raised
                  /\ e_next' = e_next + 1
                  /\ UNCHANGED e_pc
    /\ UNCHANGED <<e_localstack, e_current, e_reference, e_fetch, rvars, dvars, svars, fvars>>

\* the loop is over: _run_evidently_detection returns and detect returns
\* DriftRunResult(status="completed", results=results)
EvidentlyReturn ==
    /\ rpc = "detect"
    /\ e_pc = "loop"
    /\ e_next > Len(dataset.monitors)
    /\ e_pc' = "returned"
    /\ UNCHANGED <<e_localstack, e_current, e_reference, e_fetch, e_next, e_results,
                   e_raised, rvars, dvars, svars, fvars>>

\* the status _format_success_response (Streamlit) writes for a returned run
streamlit_status(rs) ==
    IF \E i \in 1..Len(rs) : rs[i].drift_type = "error" THEN "error"
    ELSE IF drift_detected_count(rs) > 0 THEN "warning"
    ELSE "completed"

\* a caller that leaves after detect without writing the run record
FinishUnrecorded ==
    /\ rpc = "detect"
    /\ e_pc \in {"returned", "raised"}
    /\ UNCHANGED runs
    /\ Leave
    /\ UNCHANGED <<dataset, validation, dvars, svars, fvars>>

\* the caller after detect: the except branch writes failed; after a return
\* the Lambda handler and the Airflow task write completed and the Streamlit
\* handler writes the status of _format_success_response, unless saving the
\* report raises before
Finish ==
    /\ rpc = "detect"
    /\ e_pc \in {"returned", "raised"}
    /\ IF e_pc = "raised" THEN SetStatus("failed")
       ELSE IF caller = "streamlit"
       THEN \E saved \in BOOLEAN :
               SetStatus(IF saved THEN streamlit_status(e_results) ELSE "failed")
       ELSE SetStatus("completed")
    /\ Leave
    /\ UNCHANGED <<dataset, validation, dvars, svars, fvars>>

NextRuns ==
    \/ CreateDataset
    \/ Trigger
    \/ LambdaUpdateRun
    \/ Begin
    \/ Setup
    \/ EvidentlyFetchCurrent
    \/ EvidentlyFetchReference
    \/ EvidentlyPrepare
    \/ EvidentlyMonitor
    \/ EvidentlyReturn
    \/ Finish

SpecRuns == InitRuns /\ [][NextRuns]_vars

\* the next statement of a handler that has begun
HandlerStep ==
    \/ Begin
    \/ Setup
    \/ EvidentlyFetchCurrent
    \/ EvidentlyFetchReference
    \/ EvidentlyPrepare
    \/ EvidentlyMonitor
    \/ EvidentlyReturn
    \/ Finish

\* monitors of a dataset whose runs are followed to their end
MaxFairMonitors == 1

\* create_dataset with a document of at most MaxFairMonitors monitors
CreateSmallDataset == CreateDataset /\ Len(dataset'.monitors) <= MaxFairMonitors

NextRunsFair ==
    \/ CreateSmallDataset
    \/ Trigger
    \/ LambdaUpdateRun
    \/ Begin
    \/ Setup
    \/ EvidentlyFetchCurrent
    \/ EvidentlyFetchReference
    \/ EvidentlyPrepare
    \/ EvidentlyMonitor
    \/ EvidentlyReturn
    \/ Finish

\* a handler that has begun goes on to its next statement: it is a coroutine
\* the event loop keeps scheduling (API background task, asyncio.run of the
\* Lambda handler and of the Airflow task), and no statement of it waits for
\* another handler
SpecRunsFair == InitRuns /\ [][NextRunsFair]_vars /\ WF_vars(HandlerStep)

\* ------------------------------------------------- claims on the drift runs

\* the result a step of _run_evidently_detection appended
AppendedResult == e_results'[Len(e_results')]

\* C1: whenever the evaluation of a monitor raises an exception, the result
\* appended for it has severity error and detect does not raise.
C1_MonitorExceptionBecomesErrorResult ==
    [][e_raised' # e_raised =>
          /\ Len(e_results') = Len(e_results) + 1
          /\ AppendedResult.severity = "error"
          /\ e_pc' # "raised"]_vars

\* C2: in a returned run, every monitor that comes after a monitor whose
\* evaluation raised has been evaluated too.
C2_FailureDoesNotStopLaterMonitors ==
    e_pc = "returned" =>
        \A i \in e_raised : \A j \in (i + 1)..Len(dataset.monitors) : j < e_next

StatusValues == {"pending", "running", "completed", "failed"}

\* C5: the recorded status of a run record never takes a value outside
\* pending, running, completed, failed.
C5_StatusValues == \A id \in 1..Len(runs) : runs[id] \in StatusValues

\* the type a monitor declaration is evaluated as by EvidentlyDriftDetector
EvidentlyType(monitor) ==
    IF ~monitor.isdict THEN "invalid"
    ELSE IF monitor.type = Absent THEN "distribution" ELSE monitor.type

\* C6: when detect returns after its loop over the monitors began, results
\* holds one DriftResult per configured monitor, the i-th being of the i-th
\* monitor's type.
C6_OneResultPerMonitor ==
    (e_pc = "returned" /\ e_next >= 1) =>
        /\ Len(e_results) = Len(dataset.monitors)
        /\ \A i \in 1..Len(e_results) :
              e_results[i].drift_type = EvidentlyType(dataset.monitors[i])

\* a result whose metric equals its threshold
AtThreshold(r) ==
    /\ IsNumber(r.metric_value)
    /\ IsNumber(r.threshold)
    /\ NumEq(r.metric_value, r.threshold)

\* C8 as stated: for every monitor kind, a result whose metric equals its
\* threshold has detected = false.
C8_EqualIsNeverDrift ==
    \A i \in 1..Len(e_results) : AtThreshold(e_results[i]) => ~e_results[i].detected

\* C8 amended: at metric = threshold a volume result (change_ratio > threshold)
\* and a distribution result (p-value < threshold) have detected = false, and
\* a dataset result (drift share >= threshold) has detected = true.
C8_EqualByKind ==
    \A i \in 1..Len(e_results) :
        AtThreshold(e_results[i]) =>
            /\ e_results[i].drift_type \in {"volume", "distribution", "dataset"}
            /\ e_results[i].detected = (e_results[i].drift_type = "dataset")

\* a returned run with a volume result and a dataset result, both at their
\* threshold
C8_Witness ==
    /\ e_pc = "returned"
    /\ Len(e_results) = 2
    /\ e_results[1].drift_type = "volume" /\ AtThreshold(e_results[1])
    /\ ~e_results[1].detected
    /\ e_results[2].drift_type = "dataset" /\ AtThreshold(e_results[2])
    /\ e_results[2].detected

\* a distribution monitor that names no column
HasColumnlessDistribution(cfg) ==
    \E i \in 1..Len(cfg.monitors) :
        /\ cfg.monitors[i].isdict
        /\ cfg.monitors[i].type = "distribution"
        /\ cfg.monitors[i].column \in {Absent, ""}

\* C10: for a dataset whose configuration holds a distribution monitor without
\* a column, no run record ever gets past pending other than to failed, and
\* no DriftResult is produced.
C10_ColumnlessConfigNeverRuns ==
    HasColumnlessDistribution(dataset) =>
        /\ \A id \in 1..Len(runs) : runs[id] \in {"pending", "failed"}
        /\ e_results = <<>>

\* ------------------------------------------------ claims on the validator

\* the types of the findings of a list of errors or warnings
FindingTypes(findings) == {findings[k].type : k \in 1..Len(findings)}

\* C11: validate_drift_yaml answers valid = false with a missing_column error
\* for every configuration that holds a distribution monitor whose column is
\* absent or empty.
C11_ColumnlessDistributionRejected ==
    (validation.validated /\ HasColumnlessDistribution(validation.yaml)) =>
        /\ ~validation.result.valid
        /\ "missing_column" \in FindingTypes(validation.result.errors)

\* a list entry the validator's loop reports an error for
Erroneous(monitor) ==
    \/ ~monitor.isdict
    \/ monitor.type \notin VALID_DRIFT_TYPES
    \/ monitor.type = "distribution" /\ monitor.column = Absent

C13_UnknownTypeIsConfigError ==
    /\ [](validation.validated =>
            ((\E i \in 1..Len(validation.yaml.monitors) :
                  /\ validation.yaml.monitors[i].isdict
                  /\ validation.yaml.monitors[i].type \notin VALID_DRIFT_TYPES) =>
                /\ ~validation.result.valid
                /\ FindingTypes(validation.result.errors)
                      \cap {"missing_field", "invalid_type"} # {}))
    /\ [][(e_pc = "loop" /\ e_next' = e_next + 1 /\ Len(e_results') = Len(e_results) + 1) =>
              dataset.monitors[e_next].type \in VALID_DRIFT_TYPES]_vars

\* --------------------------------------- claims on the snapshots of a run

\* C14: when the query for the current data or for the reference data
\* fails, detect raises with no result in its list, no monitor is evaluated
\* afterwards, and the caller's next write sets the run record to failed.
C14_FetchFailureFailsRun ==
    /\ [](e_fetch = "failed" => (e_pc = "raised" /\ e_results = <<>> /\ e_next = 0))
    /\ [][e_fetch = "failed" => (runs'[run_id] = "failed" /\ rpc' = "idle")]_vars

\* a run left as failed after its reference query failed on a fetched
\* current frame
C14_Witness ==
    /\ e_fetch = "failed"
    /\ e_current \in Frames \ {EmptyFrame}
    /\ e_pc = "raised"
    /\ runs[run_id] = "running"

\* C15: no monitor is evaluated against a reference frame of zero rows: the
\* loop over the monitors is never reached with an empty reference, and a
\* reference query that returns no rows leaves the run failed.
C15_EmptyReferenceAbortsRun ==
    /\ [](e_pc \in {"prepare", "loop", "returned"} => e_reference # EmptyFrame)
    /\ [][(e_pc = "reference" /\ e_fetch' = "empty") => e_pc' = "raised"]_vars

\* the keys the Evidently helpers write into DriftResult.details ("empty"
\* stands for the empty dict)
DetailKeys ==
    {"empty", "column", "p_value", "method", "drifted_columns_count", "drift_share",
     "added_columns", "removed_columns", "baseline_count", "current_count",
     "change_ratio"}

\* the details of a result carry a flag beside the metric's own keys
Flagged(r) == \E key \in DOMAIN r.details \ DetailKeys : r.details[key] = TRUE

\* C16: in a returned run whose reference data is the current data fetched
\* again (LocalStack mode, no Time Travel), the details of every result carry
\* a flag that says so, and no result of a Time Travel run carries it.
C16_FallbackIsFlagged ==
    e_pc = "returned" =>
        \A i \in 1..Len(e_results) : Flagged(e_results[i]) <=> e_localstack

\* ------------------------------------------- baseline storage: the calls

\* the specification of the baseline bucket explores no detector and no run
InitStore == IdleDetector /\ InitRun /\ IdleStore /\ IdleStat

\* invocation p moves to position at
Goto(p, at) == sv' = [sv EXCEPT ![p].at = at]

\* save_baseline(tenant_id, dataset_id, data, metadata) up to its first
\* upload: the key and data.to_parquet, which raises before anything is written
SaveBegin(p) ==
    /\ sv[p].at = "idle"
    /\ calls < MaxSaves
    /\ \E key \in BaselineKeys, data \in DataFrames, metadata \in Metadatas :
          sv' = [sv EXCEPT ![p] =
                    [at |-> IF ToParquetRaises(data) THEN "raised" ELSE "put_parquet",
                     key |-> key, data |-> data, metadata |-> metadata,
                     call |-> calls + 1]]
    /\ calls' = calls + 1
    /\ UNCHANGED <<s3, dvars, rvars, evars, fvars>>

\* client.put_object of the parquet bytes; its exception leaves save_baseline
PutParquet(p) ==
    /\ sv[p].at = "put_parquet"
    /\ \E fail \in BOOLEAN :
          IF fail
          THEN Goto(p, "raised") /\ UNCHANGED s3
          ELSE /\ s3' = [s3 EXCEPT ![sv[p].key].parquet =
                                     Object(to_parquet(sv[p].data), sv[p].call)]
               /\ Goto(p, "put_metadata")
    /\ UNCHANGED <<calls, dvars, rvars, evars, fvars>>

\* client.put_object of json.dumps(meta), then the return of save_baseline
PutMetadata(p) ==
    /\ sv[p].at = "put_metadata"
    /\ \E fail \in BOOLEAN :
          IF fail
          THEN Goto(p, "raised") /\ UNCHANGED s3
          ELSE /\ s3' = [s3 EXCEPT ![sv[p].key].metadata =
                                     Object(baseline_meta(sv[p].data, sv[p].metadata),
                                            sv[p].call)]
               /\ Goto(p, "saved")
    /\ UNCHANGED <<calls, dvars, rvars, evars, fvars>>

\* delete_baseline(tenant_id, dataset_id) up to its first delete_object
DeleteBegin(p) ==
    /\ sv[p].at = "idle"
    /\ \E key \in BaselineKeys :
          sv' = [sv EXCEPT ![p] = [NoCall EXCEPT !.at = "delete_parquet", !.key = key]]
    /\ UNCHANGED <<s3, calls, dvars, rvars, evars, fvars>>

\* client.delete_object of the parquet; an exception makes delete_baseline
\* return False
DeleteParquet(p) ==
    /\ sv[p].at = "delete_parquet"
    /\ \E fail \in BOOLEAN :
          IF fail
          THEN Goto(p, "not_deleted") /\ UNCHANGED s3
          ELSE /\ s3' = [s3 EXCEPT ![sv[p].key].parquet = NoObject]
               /\ Goto(p, "delete_metadata")
    /\ UNCHANGED <<calls, dvars, rvars, evars, fvars>>

\* client.delete_object of the metadata, then the return of delete_baseline
DeleteMetadata(p) ==
    /\ sv[p].at = "delete_metadata"
    /\ \E fail \in BOOLEAN :
          IF fail
          THEN Goto(p, "not_deleted") /\ UNCHANGED s3
          ELSE /\ s3' = [s3 EXCEPT ![sv[p].key].metadata = NoObject]
               /\ Goto(p, "deleted")
    /\ UNCHANGED <<calls, dvars, rvars, evars, fvars>>

\* the invocation ends
StoreReturn(p) ==
    /\ sv[p].at \in {"saved", "raised", "deleted", "not_deleted"}
    /\ sv' = [sv EXCEPT ![p] = NoCall]
    /\ UNCHANGED <<s3, calls, dvars, rvars, evars, fvars>>

NextStore ==
    \/ \E p \in Invocations : SaveBegin(p)
    \/ \E p \in Invocations : PutParquet(p)
    \/ \E p \in Invocations : PutMetadata(p)
    \/ \E p \in Invocations : DeleteBegin(p)
    \/ \E p \in Invocations : DeleteParquet(p)
    \/ \E p \in Invocations : DeleteMetadata(p)
    \/ \E p \in Invocations : StoreReturn(p)

SpecStore == InitStore /\ [][NextStore]_vars

\* ------------------------------------------ claims on the baseline storage

\* invocation p is inside save_baseline, between its begin and its return
Saving(p) == sv[p].at \in {"put_parquet", "put_metadata"}

\* C17: at the moment a save_baseline(key, data) call returns, load_baseline
\* of that key gives a frame with the columns and the row count of data; the
\* key holds one parquet object, so no earlier baseline can be read.
C17_LoadAfterSaveReturnsData ==
    [][\A p \in Invocations :
          (sv[p].at = "put_metadata" /\ sv'[p].at = "saved") =>
              LET loaded == load_baseline(s3', sv[p].key) IN
              /\ loaded.columns = sv[p].data.columns
              /\ loaded.rows = sv[p].data.rows]_vars

\* C18: the columns and row_count of a key's stored metadata are those of
\* the parquet stored for the key, in every state.
C18_MetadataMatchesSnapshot ==
    \A key \in BaselineKeys :
        s3[key].metadata.exists =>
            /\ baseline_exists(s3, key)
            /\ get_metadata(s3, key).columns = load_baseline(s3, key).columns
            /\ get_metadata(s3, key).row_count = load_baseline(s3, key).rows

\* C19: no two save_baseline calls are at work on one key at the same time,
\* and when a call returns, the key's parquet and metadata are both its own.
C19_OneWriterPerKey ==
    /\ [](\A p, q \in Invocations :
            (p # q /\ Saving(p) /\ Saving(q)) => sv[p].key # sv[q].key)
    /\ [][\A p \in Invocations :
            (sv[p].at = "put_metadata" /\ sv'[p].at = "saved") =>
                /\ s3'[sv[p].key].parquet.call = sv[p].call
                /\ s3'[sv[p].key].metadata.call = sv[p].call]_vars

\* --------------------------------------------- claims on the monitor names

\* C20: in a returned run no two results share a monitor_name, and a monitor
\* declared without a name that is the only one of its type is reported as
\* "<type>_monitor".
C20_MonitorNamesUnique ==
    pc = "returned" =>
        /\ \A i, j \in 1..Len(results) :
              i # j => results[i].monitor_name # results[j].monitor_name
        /\ \A i \in 1..Len(results) :
              (/\ config.monitors[i].name = Absent
               /\ \A j \in 1..Len(results) :
                     j # i => results[j].drift_type # results[i].drift_type) =>
                  results[i].monitor_name = results[i].drift_type \o "_monitor"
\* ---------------------------------------------- claims on schema results

\* C21: a schema monitor evaluated against an existing baseline reports
\* detected = true exactly when the columns differ from the baseline's, with
\* severity critical when detected and info otherwise; here for the results of
\* _run_evidently_detection, whose baseline is the reference frame
C21_SchemaDriftIsCritical ==
    \A i \in 1..Len(e_results) :
       e_results[i].drift_type = "schema" =>
          /\ e_results[i].detected <=> e_current.columns # e_reference.columns
          /\ e_results[i].severity = IF e_results[i].detected THEN "critical" ELSE "info"

\* ------------------------------------- functions evaluated on their own

\* lists calculate_psi is evaluated on: the distributions of the monitored column,
\* a single value, a value listed twice, and a row whose value is falsy
DistSingle == <<[VALUE |-> "pending", COUNT |-> 4]>>
DistRepeated == <<[VALUE |-> "pending", COUNT |-> 1], [VALUE |-> "pending", COUNT |-> 3]>>
DistFalsy == <<[VALUE |-> "", COUNT |-> 2]>>
PsiDists == Dists \cup {DistSingle, DistRepeated, DistFalsy}

\* schemas calculate_schema_diff is evaluated on: those of the monitored
\* table, a column with another declared type, a row without a column name
SchemaRetyped ==
    <<[COLUMN_NAME |-> "id", DATA_TYPE |-> "int"],
      [COLUMN_NAME |-> "amount", DATA_TYPE |-> "string"]>>
SchemaUnnamed == SchemaBase \o <<[COLUMN_NAME |-> "", DATA_TYPE |-> "int"]>>
StatSchemas == Schemas \cup {SchemaRetyped, SchemaUnnamed}

\* the baseline_days a DriftDetector is constructed with, and the row counts
\* and thresholds its volume monitor is evaluated with
BaselineDaysArgs == {0, 1, BaselineDays}
VolumeCounts == {0, 2, 3, 1000, 1003}
VolumeThresholds == {Rat(0, 1), Rat(1, 2), Rat(3, 1)}
TableOfCount(n) == [schema |-> <<>>, row_count |-> n, dist |-> [c \in Columns |-> <<>>]]
\* evaluations of the volume monitor followed on one detector
MaxEvals == 3

\* calculate_psi(baseline, current)
EvalPsi ==
    /\ \E baseline \in PsiDists, current \in PsiDists :
          /\ f_op' = "calculate_psi"
          /\ f_args' = [baseline |-> baseline, current |-> current]
          /\ f_out' = calculate_psi(baseline, current)
    /\ UNCHANGED <<dvars, rvars, evars, svars>>

\* calculate_schema_diff(baseline_schema, current_schema)
EvalSchemaDiff ==
    /\ \E baseline_schema \in StatSchemas, current_schema \in StatSchemas :
          /\ f_op' = "calculate_schema_diff"
          /\ f_args' = [baseline |-> baseline_schema, current |-> current_schema]
          /\ f_out' = calculate_schema_diff(baseline_schema, current_schema)
    /\ UNCHANGED <<dvars, rvars, evars, svars>>

\* DriftDetector(connector, baseline_days, mock_mode=False)
EvalNewDetector ==
    /\ \E baseline_days \in BaselineDaysArgs :
          /\ f_op' = "DriftDetector"
          /\ f_args' = [baseline_days |-> baseline_days, seen |-> <<>>]
          /\ f_out' = Out(NewDetectorState(baseline_days, "False"), None)
    /\ UNCHANGED <<dvars, rvars, evars, svars>>

\* _detect_volume_drift on the detector of the evaluation before, the table now
\* holding current rows; seen lists the row counts the detector was shown
EvalVolume ==
    /\ f_op \in {"DriftDetector", "_detect_volume_drift"}
    /\ Len(f_args.seen) < MaxEvals
    /\ \E current \in VolumeCounts, threshold \in VolumeThresholds :
          /\ f_op' = "_detect_volume_drift"
          /\ f_args' = [baseline |-> f_out.self.volume_baseline,
                        history |-> f_out.self.volume_history,
                        current |-> current, threshold |-> threshold,
                        seen |-> Append(f_args.seen, current)]
          /\ f_out' = detect_volume_drift(f_out.self, "v", threshold,
                                          [fail |-> FALSE, table |-> TableOfCount(current)])
    /\ UNCHANGED <<dvars, rvars, evars, svars>>

InitStat == IdleDetector /\ InitRun /\ IdleStore /\ IdleStat

NextStat ==
    \/ EvalPsi
    \/ EvalSchemaDiff
    \/ EvalNewDetector
    \/ EvalVolume

SpecStat == InitStat /\ [][NextStat]_vars

\* ------------------------------------------ claims on the volume monitor

\* an evaluation of the volume monitor against a baseline row count, with
\* fewer than 2 history points
FewPoints ==
    f_op = "_detect_volume_drift" /\ f_args.baseline # NoCount /\ Len(f_args.history) < 2

\* C22 as stated: with fewer than 2 history points, detected is true exactly
\* when the relative difference between the current and the baseline row
\* count, divided by 10, exceeds the threshold
C22_RelativeDifferenceOverTen ==
    FewPoints /\ f_args.baseline > 0 =>
       (f_out.result.detected <=>
           Abs(f_args.current - f_args.baseline) * f_args.threshold.d
              > f_args.threshold.n * 10 * f_args.baseline)

\* C22 amended: with fewer than 2 history points, detected is true exactly
\* when the change in percent of max(baseline, 1), divided by 10, exceeds the
\* threshold; severity is warning when detected and info otherwise; threshold
\* 0.5, baseline 1000 and current 1003 give detected = false
C22_PercentChangeOverTen ==
    FewPoints =>
       LET b == IF f_args.baseline > 1 THEN f_args.baseline ELSE 1
           th == f_args.threshold
           r == f_out.result
       IN  /\ r.detected <=>
                 Abs(f_args.current - f_args.baseline) * 100 * th.d > th.n * 10 * b
           /\ r.severity = IF r.detected THEN "warning" ELSE "info"
           /\ (f_args.baseline = 1000 /\ f_args.current = 1003 /\ th = Rat(1, 2))
                 => ~r.detected

\* a change of 50 percent against threshold 0.5 is reported as drift
C22_Witness ==
    /\ FewPoints
    /\ f_args.baseline = 2 /\ f_args.current = 3 /\ f_args.threshold = Rat(1, 2)
    /\ f_out.result.detected
    /\ f_out.result.severity = "warning"

\* C23: after any sequence of volume evaluations the history holds at most
\* baseline_days row counts, whatever baseline_days the detector was given, and
\* they are the most recent counts in the order they were seen
C23_HistoryCapped ==
    f_op = "_detect_volume_drift" =>
       LET history == f_out.self.volume_history
           seen == f_args.seen
           kept == IF Len(seen) < f_out.self.baseline_days
                   THEN Len(seen) ELSE f_out.self.baseline_days
       IN  /\ Len(history) <= f_out.self.baseline_days
           /\ history = SubSeq(seen, Len(seen) - kept + 1, Len(seen))

\* the same for a detector whose baseline_days is at least 1
C23_HistoryCappedFromOne ==
    (f_op = "_detect_volume_drift" /\ f_out.self.baseline_days >= 1) => C23_HistoryCapped

C27_ErrorIsNeverDrift ==
    /\ \A i \in 1..Len(results) : results[i].severity = "error" => ~results[i].detected
    /\ drift_detected_count(results) =
          Cardinality({i \in 1..Len(results) :
                          results[i].detected /\ results[i].severity # "error"})

\* a run in its loop that holds the error result of a failed volume evaluation
\* next to a detected drift
C27_Witness ==
    /\ pc = "loop"
    /\ Len(results) = 2
    /\ results[1].detected
    /\ results[2].severity = "error"
    /\ results[2].drift_type = "volume"
    /\ drift_detected_count(results) = 1

\* C28: a monitor evaluation that ends in an error result leaves the schema
\* baseline, the volume baseline, the volume history and the distribution
\* baselines of the detector as they were
C28_ErrorKeepsBaselines ==
    [][(MonitorStep /\ StepResult.severity = "error") =>
          /\ self'.schema_baseline = self.schema_baseline
          /\ self'.volume_baseline = self.volume_baseline
          /\ self'.volume_history = self.volume_history
          /\ self'.dist_baseline = self.dist_baseline]_vars

\* a detector that holds a volume baseline and a history, right after a volume
\* evaluation that failed on its threshold
C28_Witness ==
    /\ pc = "loop"
    /\ Len(results) >= 1
    /\ results[Len(results)].severity = "error"
    /\ results[Len(results)].message = "Volume drift detection failed: " \o TypeError
    /\ self.volume_baseline # NoCount
    /\ Len(self.volume_history) >= 1

\* ------------------------------------------- claims on run termination

\* the run record id is the one a handler of the API, the Lambda function or
\* the Airflow task is at work on
HandledRun(id) ==
    id <= Len(runs) /\ run_id = id /\ caller \in {"api", "lambda", "airflow"}

====
